---- MODULE Spec2Model ----
(***************************************************************************)
(* The generic search API of code/2022-03-06-thinking:                     *)
(*   search.rs       SearchList / SearchResult / SearchKind, binary_search,*)
(*                   linear_search and the user-facing search;             *)
(*   search_init.rs  the direct translation of the Python design over      *)
(*                   slices: linear_search, binary_search, search.         *)
(* search.rs is modelled one invocation of a recursive function per step;  *)
(* search_init.rs by recursive operators applied by one action per call.   *)
(* Rust slices are 0-based, TLA+ sequences 1-based: at and slice convert.  *)
(***************************************************************************)
EXTENDS Integers, Sequences, FiniteSets, TLC

\* Bounds of the model: the longest caller sequence and the largest item.
MaxLen == 3
MaxVal == 2

\* T: Searchable (an Ord type), here a range of integers.
T == 0 .. MaxVal
Lists == UNION {[1 .. n -> T] : n \in 0 .. MaxLen}

\* Option<usize>
None == <<>>
Some(i) == <<i>>
\* A variant of map_succ that returns the callee's index as it is.
map_succ_same(o) == o

\* Option::map(|i| i + 1)
map_succ(o) == IF o = None THEN None ELSE Some(o[1] + 1)

\* list[i] and &list[a..b] of a Rust slice; both panic outside the bounds.
index_ok(list, i) == i >= 0 /\ i < Len(list)
at(list, i) == list[i + 1]
slice_ok(list, a, b) == a >= 0 /\ a <= b /\ b <= Len(list)
slice(list, a, b) == SubSeq(list, a + 1, b)

\* <[T]>::sort(): a stable ascending sort.
RECURSIVE insert(_, _)
insert(x, s) ==
    IF s = <<>> THEN <<x>>
    ELSE IF x < Head(s) THEN <<x>> \o s
    ELSE <<Head(s)>> \o insert(x, Tail(s))

RECURSIVE sort(_)
sort(s) ==
    IF s = <<>> THEN <<>>
    ELSE insert(s[Len(s)], sort(SubSeq(s, 1, Len(s) - 1)))

(***************************************************************************)
(* search_init.rs                                                          *)
(***************************************************************************)
RECURSIVE init_linear_search(_, _, _)
init_linear_search(item, item_list, is_sorted) ==
    IF Len(item_list) = 0 THEN None
    ELSE IF item = at(item_list, 0) THEN Some(0)
    ELSE IF is_sorted /\ item < at(item_list, 0) THEN None
    ELSE map_succ(init_linear_search(item,
                      slice(item_list, 1, Len(item_list)), is_sorted))

RECURSIVE init_binary_search(_, _)
init_binary_search(item, item_list) ==
    LET l == Len(item_list)
        mid == l \div 2
    IN  IF l = 0 THEN FALSE
        ELSE IF item = at(item_list, mid) THEN TRUE
        ELSE IF item < at(item_list, mid)
             THEN init_binary_search(item, slice(item_list, 0, mid))
             ELSE init_binary_search(item, slice(item_list, mid + 1, l))

\* enum SearchResult { Linear(Option<usize>), Binary(bool) }
Linear(o) == <<"Linear", o>>
Binary(b) == <<"Binary", b>>

\* A variant of init_search_list that sorts in both modes.
init_search_list_any_mode(item_list, check, is_sorted) ==
    IF ~is_sorted THEN sort(item_list) ELSE item_list

\* item_list.sort() when check && !is_sorted: the caller's slice afterwards.
init_search_list(item_list, check, is_sorted) ==
    IF check /\ ~is_sorted THEN sort(item_list) ELSE item_list

\* A variant of init_search_result that searches the slice before it is sorted.
init_search_result_unsorted(item, item_list, check, is_sorted) ==
    IF check
    THEN Binary(init_binary_search(item, item_list))
    ELSE Linear(init_linear_search(item, item_list, is_sorted))

\* The value search returns, computed on the slice as init_search_list left it.
init_search_result(item, item_list, check, is_sorted) ==
    IF check
    THEN Binary(init_binary_search(item, init_search_list(item_list, check, is_sorted)))
    ELSE Linear(init_linear_search(item, item_list, is_sorted))

(***************************************************************************)
(* search.rs                                                               *)
(***************************************************************************)
\* Variants of SearchList::sort: one never sorts, one sorts whatever the flag.
SearchList_sort_never(sl) == sl
SearchList_sort_always(sl) == [sl EXCEPT !.list = sort(sl.list)]

\* SearchList::sort: sorts the list when it is not flagged sorted.
SearchList_sort(sl) ==
    IF ~sl.is_sorted THEN [sl EXCEPT !.list = sort(sl.list)] ELSE sl

\* struct SearchResult { found, index }
SearchResult(f, i) == [found |-> f, index |-> i]

\* let mid = l / 2_usize
mid_of(l) == l \div 2

\* A variant of is_empty that is off by one.
is_empty_one(l) == l = 1

\* binary_search: if l == 0
is_empty(l) == l = 0

\* A variant of empty_view_result that reports a match.
empty_view_found == SearchResult(TRUE, None)

\* binary_search: the result for an empty view.
empty_view_result == SearchResult(FALSE, None)

\* A variant of prune with the comparison reversed.
prune_greater(is_sorted, x, first) == is_sorted /\ x > first

\* linear_search: search_list.is_sorted && item < search_list.list[0]
prune(is_sorted, x, first) == is_sorted /\ x < first

\* A variant of right_half that keeps the middle element.
right_half_from_mid(l, mid) == <<mid, l>>

\* The views binary_search and linear_search recurse into:
\* &list[..mid], &list[mid + 1..] and &list[1..], as <<first, one past last>>.
left_half(l, mid) == <<0, mid>>
right_half(l, mid) == <<mid + 1, l>>
tail_view(l) == <<1, l>>

VARIABLES
    data,         \* the caller's sequence: item_list of search_init.rs, the
                  \* slice a SearchList borrows in search.rs
    item,         \* the item the caller searches for
    pc,           \* "idle", "binary_search", "linear_search", "return",
                  \* "done" or "panic"
    call,         \* the arguments of the current call, as the caller gave them
    search_list,  \* search.rs: search's own SearchList (after sort)
    view,         \* search.rs: the SearchList of the innermost invocation
    off,          \* search.rs: where view.list starts within search_list.list
    depth,        \* search.rs: linear_search invocations awaiting a callee
    reads,        \* search.rs: positions of search_list.list read so far
    result,       \* search.rs: the SearchResult last returned
    init_result,  \* search_init.rs: the SearchResult last returned
    prev          \* the call before the current one and what it returned

vars == <<data, item, pc, call, search_list, view, off, depth, reads, result,
          init_result, prev>>

NoCall == [impl |-> "none", kind |-> "none", is_sorted |-> FALSE, list |-> <<>>]

Init ==
    /\ data \in Lists
    /\ item \in T
    /\ pc = "idle"
    /\ call = NoCall
    /\ search_list = [list |-> <<>>, is_sorted |-> FALSE]
    /\ view = [list |-> <<>>, is_sorted |-> FALSE]
    /\ off = 0
    /\ depth = 0
    /\ reads = {}
    /\ result = SearchResult(FALSE, None)
    /\ init_result = Binary(FALSE)
    /\ prev = [call |-> NoCall, result |-> SearchResult(FALSE, None),
               init_result |-> Binary(FALSE)]

\* What the caller keeps of a finished call when it makes the next one.
remember ==
    IF pc = "done"
    THEN [call |-> call, result |-> result, init_result |-> init_result]
    ELSE prev

\* search_init.rs: search(item, &mut data, check, is_sorted), a whole call.
init_search(check, is_sorted) ==
    /\ pc \in {"idle", "done"}
    /\ prev' = remember
    /\ call' = [impl |-> "search_init",
                kind |-> IF check THEN "CheckPresence" ELSE "FindIndex",
                is_sorted |-> is_sorted, list |-> data]
    /\ data' = init_search_list(data, check, is_sorted)
    /\ init_result' = init_search_result(item, data, check, is_sorted)
    /\ pc' = "done"
    /\ UNCHANGED <<item, search_list, view, off, depth, reads, result>>

\* search.rs: search(SearchList { list: Cow::Borrowed(&data), is_sorted }, item,
\* kind) up to its call of binary_search or linear_search. to_mut() clones a
\* borrowed list before it is sorted, so data itself is left alone.
search(kind, is_sorted) ==
    /\ pc \in {"idle", "done"}
    /\ prev' = remember
    /\ call' = [impl |-> "search", kind |-> kind, is_sorted |-> is_sorted,
                list |-> data]
    /\ LET given == [list |-> data, is_sorted |-> is_sorted]
           sl == IF kind = "CheckPresence" THEN SearchList_sort(given) ELSE given
       IN  /\ search_list' = sl
           /\ view' = sl
    /\ pc' = IF kind = "CheckPresence" THEN "binary_search" ELSE "linear_search"
    /\ off' = 0
    /\ depth' = 0
    /\ reads' = {}
    /\ UNCHANGED <<data, item, result, init_result>>

\* The recursive call on &view.list[v[1] .. v[2]], ..view; a panic when the
\* range is outside the view.
recurse(v, next_pc) ==
    IF slice_ok(view.list, v[1], v[2])
    THEN /\ view' = [view EXCEPT !.list = slice(view.list, v[1], v[2])]
         /\ off' = off + v[1]
         /\ pc' = next_pc
    ELSE /\ pc' = "panic"
         /\ UNCHANGED <<view, off>>

\* One invocation of binary_search. Its recursive calls are tail calls whose
\* result is returned as it is, so a result ends the whole call.
binary_search ==
    /\ pc = "binary_search"
    /\ LET l == Len(view.list)
           mid == mid_of(l)
       IN  IF is_empty(l)
           THEN /\ result' = empty_view_result
                /\ pc' = "done"
                /\ UNCHANGED <<view, off, reads>>
           ELSE IF ~index_ok(view.list, mid)
           THEN /\ pc' = "panic"
                /\ UNCHANGED <<view, off, reads, result>>
           ELSE /\ reads' = reads \cup {off + mid}
                /\ IF item = at(view.list, mid)
                   THEN /\ result' = SearchResult(TRUE, None)
                        /\ pc' = "done"
                        /\ UNCHANGED <<view, off>>
                   ELSE IF item < at(view.list, mid)
                   THEN /\ recurse(left_half(l, mid), "binary_search")
                        /\ UNCHANGED result
                   ELSE /\ recurse(right_half(l, mid), "binary_search")
                        /\ UNCHANGED result
    /\ UNCHANGED <<data, item, call, search_list, depth, init_result, prev>>

\* Where a result of the innermost linear_search goes: to search's caller, or
\* to the invocation that awaits it.
returning == IF depth = 0 THEN "done" ELSE "return"

\* One invocation of linear_search, up to its result or its recursive call.
linear_search ==
    /\ pc = "linear_search"
    /\ IF Len(view.list) = 0
       THEN /\ result' = SearchResult(FALSE, None)
            /\ pc' = returning
            /\ UNCHANGED <<view, off, depth, reads>>
       ELSE IF ~index_ok(view.list, 0)
       THEN /\ pc' = "panic"
            /\ UNCHANGED <<view, off, depth, reads, result>>
       ELSE /\ reads' = reads \cup {off}
            /\ IF item = at(view.list, 0)
               THEN /\ result' = SearchResult(TRUE, Some(0))
                    /\ pc' = returning
                    /\ UNCHANGED <<view, off, depth>>
               ELSE IF prune(view.is_sorted, item, at(view.list, 0))
               THEN /\ result' = SearchResult(FALSE, None)
                    /\ pc' = returning
                    /\ UNCHANGED <<view, off, depth>>
               ELSE /\ recurse(tail_view(Len(view.list)), "linear_search")
                    /\ depth' = IF pc' = "panic" THEN depth ELSE depth + 1
                    /\ UNCHANGED result
    /\ UNCHANGED <<data, item, call, search_list, init_result, prev>>

\* An invocation of linear_search gets its callee's search_result and returns
\* SearchResult { index: search_result.index.map(|i| i + 1), ..search_result }.
linear_search_return ==
    /\ pc = "return"
    /\ depth > 0
    /\ result' = [result EXCEPT !.index = map_succ(result.index)]
    /\ depth' = depth - 1
    /\ pc' = IF depth = 1 THEN "done" ELSE "return"
    /\ UNCHANGED <<data, item, call, search_list, view, off, reads, init_result,
                   prev>>

Kinds == {"CheckPresence", "FindIndex"}

Next ==
    \/ \E check \in BOOLEAN, is_sorted \in BOOLEAN : init_search(check, is_sorted)
    \/ \E kind \in Kinds, is_sorted \in BOOLEAN : search(kind, is_sorted)
    \/ binary_search
    \/ linear_search
    \/ linear_search_return

Spec == Init /\ [][Next]_vars

\* A call that was made runs on: the function is synchronous and single-threaded.
Running == binary_search \/ linear_search \/ linear_search_return
FairSpec == Spec /\ WF_vars(Running)

(***************************************************************************)
(* Properties                                                              *)
(***************************************************************************)
member(x, s) == \E i \in 1 .. Len(s) : s[i] = x
\* 0-based position of the first occurrence of x in s.
first_index(x, s) == (CHOOSE i \in 1 .. Len(s) :
                         s[i] = x /\ \A j \in 1 .. i - 1 : s[j] # x) - 1
ascending(s) == \A i \in 1 .. Len(s) - 1 : s[i] <= s[i + 1]
count(x, s) == Cardinality({i \in 1 .. Len(s) : s[i] = x})
permutation(s, t) == Len(s) = Len(t) /\ \A x \in T : count(x, s) = count(x, t)

\* found and index of what a call returned, for either implementation.
\* r is the state itself or prev: both hold call, result and init_result.
found_of(r) ==
    IF r.call.impl = "search" THEN r.result.found
    ELSE IF r.init_result[1] = "Binary" THEN r.init_result[2]
    ELSE r.init_result[2] # None
index_of(r) ==
    IF r.call.impl = "search" THEN r.result.index
    ELSE IF r.init_result[1] = "Binary" THEN None
    ELSE r.init_result[2]
now == [call |-> call, result |-> result, init_result |-> init_result]

returned(kind) == pc = "done" /\ call.kind = kind
in_search == call.impl = "search" /\ pc \in {"binary_search", "linear_search", "return"}

\* The answer of a linear search that is right: found iff a member, the index
\* the first occurrence, absent when not found.
first_occurrence ==
    /\ found_of(now) <=> member(item, call.list)
    /\ member(item, call.list)
           => index_of(now) = Some(first_index(item, call.list))
    /\ ~member(item, call.list) => index_of(now) = None

\* C1 as stated: for every sequence, item and value of the sorted flag, search in
\* FindIndex mode finds the item iff it is a member, at its first occurrence.
C1_AnyFlag == returned("FindIndex") => first_occurrence

\* C1, amended: search in FindIndex mode finds the item iff it is a member, at
\* the index of its first occurrence (absent when not found), whenever the
\* sorted flag is false or the sequence is in ascending order.
C1_FindIndex ==
    (returned("FindIndex") /\ (~call.is_sorted \/ ascending(call.list)))
        => first_occurrence

C1_Witness ==
    /\ returned("FindIndex")
    /\ call.impl = "search"
    /\ call.is_sorted
    /\ ascending(call.list)
    /\ result.found
    /\ result.index = Some(2)

\* C2: when the sequence is ascending or its sorted flag is false, search in
\* CheckPresence mode finds the item iff it is a member; the index it returns
\* is absent for every input.
C2_CheckPresence ==
    returned("CheckPresence") =>
        /\ index_of(now) = None
        /\ (ascending(call.list) \/ ~call.is_sorted)
               => (found_of(now) <=> member(item, call.list))

C2_Witness ==
    /\ returned("CheckPresence")
    /\ call.impl = "search"
    /\ ~call.is_sorted
    /\ ~ascending(call.list)
    /\ result.found
    /\ Cardinality(reads) >= 2

\* C3: search in FindIndex mode never changes the sequence or its sorted flag:
\* the caller's sequence, search's SearchList and every view linear_search
\* passes down hold the elements and the flag the caller supplied.
C3_FindIndexFrame ==
    (call.kind = "FindIndex") =>
        /\ data = call.list
        /\ (call.impl = "search") =>
               /\ search_list = [list |-> call.list, is_sorted |-> call.is_sorted]
               /\ view.is_sorted = call.is_sorted
               /\ off <= Len(call.list)
               /\ view.list = slice(call.list, off, Len(call.list))

C3_Witness ==
    /\ returned("FindIndex")
    /\ ~call.is_sorted
    /\ ~ascending(call.list)
    /\ call.impl = "search"
    /\ off >= 2

\* C4 as stated: in CheckPresence mode on a SearchList whose is_sorted is
\* false, the list is sorted and the flag set, so the SearchList handed to
\* binary_search and every sub-view of it have is_sorted = TRUE.
C4_FlagSet ==
    (call.impl = "search" /\ call.kind = "CheckPresence" /\ ~call.is_sorted)
        => /\ ascending(search_list.list)
           /\ search_list.is_sorted
           /\ view.is_sorted

\* The sequence a call worked on, as the call left it.
sequence_after == IF call.impl = "search" THEN search_list.list ELSE data

\* C5: search in CheckPresence mode changes nothing but the order of the
\* sequence: with the sorted flag false the sequence is afterwards an ascending
\* permutation of what it was, with the flag true it is unchanged, in
\* ascending order or not.
C5_SortOnly ==
    returned("CheckPresence") =>
        /\ ~call.is_sorted =>
               /\ ascending(sequence_after)
               /\ permutation(sequence_after, call.list)
        /\ call.is_sorted => sequence_after = call.list
        /\ call.impl = "search" => data = call.list

C5_Witness ==
    /\ returned("CheckPresence")
    /\ call.impl = "search_init"
    /\ ~call.is_sorted
    /\ ~ascending(call.list)
    /\ data # call.list

\* C6: two calls of search in CheckPresence mode in a row, on the same sequence
\* with the same flag and item, return the same found, and the second leaves
\* the sequence as the first left it.
C6_Idempotent ==
    (/\ returned("CheckPresence")
     /\ prev.call.kind = "CheckPresence"
     /\ prev.call.impl = call.impl
     /\ prev.call.is_sorted = call.is_sorted)
        => /\ found_of(now) = found_of(prev)
           /\ data = call.list

C6_Witness ==
    /\ returned("CheckPresence")
    /\ prev.call.kind = "CheckPresence"
    /\ prev.call.impl = "search_init"
    /\ call.impl = "search_init"
    /\ ~prev.call.is_sorted
    /\ ~call.is_sorted
    /\ ~ascending(prev.call.list)
    /\ found_of(now)

\* C7: on the empty sequence search returns found = FALSE and no index in both
\* modes, whatever the flag, without a panic and without reading an element.
C7_Empty ==
    (call.impl # "none" /\ call.list = <<>>) =>
        /\ pc # "panic"
        /\ call.impl = "search" => reads = {}
        /\ pc = "done" => /\ ~found_of(now)
                          /\ index_of(now) = None

C7_Witness ==
    /\ pc = "done"
    /\ call.impl = "search"
    /\ call.kind = "CheckPresence"
    /\ call.list = <<>>

\* C8: every call of search returns: no index or sub-view leaves the bounds of
\* the current view (no panic), each recursive call gets a strictly shorter
\* view, and a call that was made reaches its result.
shorter_view ==
    (pc \in {"binary_search", "linear_search"} /\ pc' = pc)
        => Len(view'.list) < Len(view.list)
C8_Total ==
    /\ [](pc # "panic")
    /\ [][shorter_view]_vars
    /\ [](in_search => <>(pc = "done"))

C8_Witness ==
    /\ pc = "done"
    /\ call.impl = "search"
    /\ call.kind = "CheckPresence"
    /\ ~result.found
    /\ Cardinality(reads) >= 2

\* C9: linear_search with is_sorted = FALSE reads every element up to the
\* first match, or all of them; and on a sequence in ascending order
\* linear_search with is_sorted = TRUE returns what it returns there with
\* is_sorted = FALSE.
C9_FlagOnlyPrunes ==
    returned("FindIndex") =>
        /\ (call.impl = "search" /\ ~call.is_sorted) =>
               reads = IF member(item, call.list)
                       THEN 0 .. first_index(item, call.list)
                       ELSE 0 .. Len(call.list) - 1
        /\ (/\ call.is_sorted
            /\ ascending(call.list)
            /\ prev.call.kind = "FindIndex"
            /\ prev.call.impl = call.impl
            /\ ~prev.call.is_sorted
            /\ prev.call.list = call.list) =>
               /\ found_of(now) = found_of(prev)
               /\ index_of(now) = index_of(prev)

C9_Witness ==
    /\ returned("FindIndex")
    /\ call.impl = "search"
    /\ call.is_sorted
    /\ ascending(call.list)
    /\ prev.call.kind = "FindIndex"
    /\ prev.call.impl = "search"
    /\ ~prev.call.is_sorted
    /\ prev.call.list = call.list
    /\ Len(call.list) >= 2
    /\ ~result.found
    /\ Cardinality(reads) < Len(call.list)

\* C10: binary search on a sequence in any order never reports an item that is
\* not a member: found = TRUE implies membership, also for a CheckPresence call
\* on an unsorted sequence flagged sorted.
C10_NoFalsePositive ==
    (returned("CheckPresence") /\ found_of(now))
        => member(item, call.list)

C10_Witness ==
    /\ returned("CheckPresence")
    /\ call.is_sorted
    /\ ~ascending(call.list)
    /\ found_of(now)
    /\ call.impl = "search"
    /\ Cardinality(reads) >= 2

====
